---- MODULE Spec2Model ----
(***************************************************************************)
(* Model of fnord::http::HTTPConnection (libfnord/net/http/                *)
(* httpconnection.cc): one connection, its reference count, the one-shot   *)
(* read/write callbacks it registers with the scheduler, the shared buffer *)
(* buf_, the parser state and the handler that is called back from inside  *)
(* read() and write().                                                     *)
(*                                                                         *)
(* Every member function is an operator from a connection record to a      *)
(* connection record; an action is one callback run by the scheduler (or   *)
(* start()), including every call made from inside it.                     *)
(***************************************************************************)
EXTENDS Integers, Sequences, FiniteSets, TLC

\* ---------------------------------------------------------------- bounds
MaxLen == 3        \* longest serialized response, in bytes
MaxReadLen == 1    \* most bytes one transport read() returns
MaxReads == 3      \* read callbacks run by the scheduler in one behaviour
MaxRequests == 2   \* request cycles (nextRequest calls) in one behaviour

\* ------------------------------------------------- HTTPParser::state()
S_METHOD == 0
S_URI == 1
S_VERSION == 2
S_HEADER == 3
S_BODY == 4
S_DONE == 5

ParserStates == S_METHOD .. S_DONE

\* a byte that arrived from the peer (request bytes are not told apart)
ReqByte == 0

\* HTTPGenerator::generate: the serialization of a response of n bytes;
\* the bytes are pairwise distinct so that order and repetition show
Serialize(n) == [i \in 1 .. n |-> i]

VARIABLES
  refcount_,               \* std::atomic refcount_
  deleted,                 \* number of times `delete this` was executed
  closeCalls,              \* number of conn_->close() calls (> 0: closed)
  pendingRead,             \* read callbacks registered and not yet run
  pendingWrite,            \* write callbacks registered and not yet run
  parser_state,            \* parser_.state()
  on_read_completed_cb_,   \* "null", "default" or "read_body_chunk"
  on_write_completed_cb_,  \* "null" or "ready"
  buf_data,                \* memory of buf_ (allocSize bytes)
  buf_size,                \* buf_.size()
  buf_mark,                \* buf_.mark()
  body_buf_,               \* body_buf_ contents
  keepalive,               \* cur_request_->keepalive()
  responded,               \* the handler has called writeResponse()
  raised,                  \* exception that left the last callback
  lastEvent,               \* what the last callback met on the transport
  requests,                \* nextRequest() calls
  reads,                   \* read() runs
  writes,                  \* write() runs
  incRefs,                 \* incRef() calls
  decRefs,                 \* decRef() calls
  decAtZero,               \* decRef() calls made with refcount_ <= 0
  armsWhileClosed,         \* awaitRead/awaitWrite calls on a closed conn_
  eofCalls,                \* parser_.eof() calls
  eofAfterClose,           \* parser_.eof() calls made after conn_->close()
  handlerCalls,            \* handleHTTPRequest() calls for this request
  readCompleted,           \* on_read_completed_cb_ invocations by read()
  bodyCalls,               \* body callback invocations for this request
  lastChunkCalls,          \* ... of which with last_chunk = true
  bodyClears,              \* body_buf_.clear() calls
  illegalState,            \* IllegalStateError raised by read_body_chunk
  finishCalls,             \* finishResponse() calls
  writeBodyCalls,          \* writeResponseBody() calls
  serialized,              \* what writeResponse() put into buf_
  sent,                    \* bytes accepted by conn_->write since then
  writeLens,               \* byte count of every conn_->write since then
  readyCalls               \* on_write_completed_cb_ invocations since then

vars == << refcount_, deleted, closeCalls, pendingRead, pendingWrite,
           parser_state, on_read_completed_cb_, on_write_completed_cb_,
           buf_data, buf_size, buf_mark, body_buf_, keepalive, responded,
           raised, lastEvent, requests, reads, writes, incRefs, decRefs,
           decAtZero, armsWhileClosed, eofCalls, eofAfterClose,
           handlerCalls, readCompleted, bodyCalls, lastChunkCalls,
           bodyClears, illegalState, finishCalls, writeBodyCalls,
           serialized, sent, writeLens, readyCalls >>

\* the connection object as one record
this ==
  [ refcount_ |-> refcount_, deleted |-> deleted, closeCalls |-> closeCalls,
    pendingRead |-> pendingRead, pendingWrite |-> pendingWrite,
    parser_state |-> parser_state,
    on_read_completed_cb_ |-> on_read_completed_cb_,
    on_write_completed_cb_ |-> on_write_completed_cb_,
    buf_data |-> buf_data, buf_size |-> buf_size, buf_mark |-> buf_mark,
    body_buf_ |-> body_buf_, keepalive |-> keepalive,
    responded |-> responded, raised |-> raised, lastEvent |-> lastEvent,
    requests |-> requests, reads |-> reads, writes |-> writes,
    incRefs |-> incRefs, decRefs |-> decRefs, decAtZero |-> decAtZero,
    armsWhileClosed |-> armsWhileClosed, eofCalls |-> eofCalls,
    eofAfterClose |-> eofAfterClose, handlerCalls |-> handlerCalls,
    readCompleted |-> readCompleted, bodyCalls |-> bodyCalls,
    lastChunkCalls |-> lastChunkCalls, bodyClears |-> bodyClears,
    illegalState |-> illegalState, finishCalls |-> finishCalls,
    writeBodyCalls |-> writeBodyCalls,
    serialized |-> serialized, sent |-> sent, writeLens |-> writeLens,
    readyCalls |-> readyCalls ]

Become(s) ==
  /\ refcount_' = s.refcount_
  /\ deleted' = s.deleted
  /\ closeCalls' = s.closeCalls
  /\ pendingRead' = s.pendingRead
  /\ pendingWrite' = s.pendingWrite
  /\ parser_state' = s.parser_state
  /\ on_read_completed_cb_' = s.on_read_completed_cb_
  /\ on_write_completed_cb_' = s.on_write_completed_cb_
  /\ buf_data' = s.buf_data
  /\ buf_size' = s.buf_size
  /\ buf_mark' = s.buf_mark
  /\ body_buf_' = s.body_buf_
  /\ keepalive' = s.keepalive
  /\ responded' = s.responded
  /\ raised' = s.raised
  /\ lastEvent' = s.lastEvent
  /\ requests' = s.requests
  /\ reads' = s.reads
  /\ writes' = s.writes
  /\ incRefs' = s.incRefs
  /\ decRefs' = s.decRefs
  /\ decAtZero' = s.decAtZero
  /\ armsWhileClosed' = s.armsWhileClosed
  /\ eofCalls' = s.eofCalls
  /\ eofAfterClose' = s.eofAfterClose
  /\ handlerCalls' = s.handlerCalls
  /\ readCompleted' = s.readCompleted
  /\ bodyCalls' = s.bodyCalls
  /\ lastChunkCalls' = s.lastChunkCalls
  /\ bodyClears' = s.bodyClears
  /\ illegalState' = s.illegalState
  /\ finishCalls' = s.finishCalls
  /\ writeBodyCalls' = s.writeBodyCalls
  /\ serialized' = s.serialized
  /\ sent' = s.sent
  /\ writeLens' = s.writeLens
  /\ readyCalls' = s.readyCalls

\* ------------------------------------------------------ reference count
incRef(s) == [s EXCEPT !.refcount_ = @ + 1, !.incRefs = @ + 1]

\* decRef that compares the count after the decrement instead of before
decRef_predecrement(s) ==
  IF s.refcount_ = 2
    THEN [s EXCEPT !.refcount_ = 1, !.decRefs = @ + 1, !.deleted = @ + 1]
    ELSE [s EXCEPT !.refcount_ = @ - 1, !.decRefs = @ + 1,
                   !.decAtZero = IF s.refcount_ <= 0 THEN @ + 1 ELSE @]

decRef(s) ==
  IF s.refcount_ = 1
    THEN [s EXCEPT !.refcount_ = 0, !.decRefs = @ + 1, !.deleted = @ + 1]
    ELSE [s EXCEPT !.refcount_ = @ - 1, !.decRefs = @ + 1,
                   !.decAtZero = IF s.refcount_ <= 0 THEN @ + 1 ELSE @]

\* close() that also releases the caller's reference
close_twice(s) == decRef(decRef([s EXCEPT !.closeCalls = @ + 1]))

close(s) == decRef([s EXCEPT !.closeCalls = @ + 1])

\* ----------------------------------------------------------- scheduling
\* awaitRead that registers the callback without taking a reference
awaitRead_noref(s) ==
  [s EXCEPT !.pendingRead = @ + 1,
            !.armsWhileClosed = IF s.closeCalls > 0 THEN @ + 1 ELSE @]

awaitRead(s) ==
  LET t == incRef(s)
  IN  [t EXCEPT !.pendingRead = @ + 1,
                !.armsWhileClosed = IF s.closeCalls > 0 THEN @ + 1 ELSE @]

awaitWrite(s) ==
  LET t == incRef(s)
  IN  [t EXCEPT !.pendingWrite = @ + 1,
                !.armsWhileClosed = IF s.closeCalls > 0 THEN @ + 1 ELSE @]

\* a header-phase callback that re-arms whatever the parser state is
default_read_completed_always(s) == awaitRead(s)

\* the header-phase callback installed by nextRequest()
default_read_completed(s) ==
  IF s.parser_state < S_BODY THEN awaitRead(s) ELSE s

\* nextRequest that leaves the write-completion callback installed
nextRequest_keepcb(s) ==
  awaitRead([s EXCEPT !.parser_state = S_METHOD,
                      !.keepalive = FALSE,
                      !.responded = FALSE,
                      !.handlerCalls = 0,
                      !.bodyCalls = 0,
                      !.lastChunkCalls = 0,
                      !.requests = @ + 1,
                      !.on_read_completed_cb_ = "default"])

nextRequest(s) ==
  awaitRead([s EXCEPT !.parser_state = S_METHOD,
                      !.keepalive = FALSE,
                      !.responded = FALSE,
                      !.handlerCalls = 0,
                      !.bodyCalls = 0,
                      !.lastChunkCalls = 0,
                      !.requests = @ + 1,
                      !.on_write_completed_cb_ = "null",
                      !.on_read_completed_cb_ = "default"])

\* ---------------------------------------------------------- write path
writeResponse(s, n) ==
  awaitWrite([s EXCEPT
    !.buf_data = [i \in 1 .. MaxLen |->
                    IF i <= n THEN Serialize(n)[i] ELSE s.buf_data[i]],
    !.buf_size = n,
    !.buf_mark = 0,
    !.on_write_completed_cb_ = "ready",
    !.responded = TRUE,
    !.serialized = Serialize(n),
    !.sent = << >>,
    !.writeLens = << >>,
    !.readyCalls = 0])

\* the body of writeResponseBody is empty: the call changes nothing
writeResponseBody(s) == [s EXCEPT !.writeBodyCalls = @ + 1]

\* finishResponse with the keep-alive test inverted
finishResponse_inverted(s) ==
  LET t == [s EXCEPT !.finishCalls = @ + 1]
  IN  IF ~t.keepalive THEN nextRequest(t) ELSE close(t)

finishResponse(s) ==
  LET t == [s EXCEPT !.finishCalls = @ + 1]
  IN  IF t.keepalive THEN nextRequest(t) ELSE close(t)

\* ------------------------------------------------ request body streaming
\* the handler's body callback: h.onBody says what it does
bodyCallback(s, last_chunk, onBody, n) ==
  LET t == [s EXCEPT !.bodyCalls = @ + 1,
                     !.lastChunkCalls = IF last_chunk THEN @ + 1 ELSE @]
  IN  IF onBody = "respond" /\ ~t.responded THEN writeResponse(t, n) ELSE t

\* read_body_chunk that checks the parser state after the delivery
read_body_chunk_latecheck(s, callbackAlive, ub, onBody, n) ==
  LET last_chunk == (s.parser_state = S_DONE)
      c == bodyCallback(s, last_chunk, onBody, n)
      d == IF last_chunk
             THEN c
             ELSE awaitRead([c EXCEPT !.body_buf_ = << >>,
                                      !.bodyClears = @ + 1])
  IN  IF s.parser_state < S_BODY
        THEN [d EXCEPT !.raised = "IllegalStateError", !.illegalState = @ + 1]
        ELSE d

\* read_body_chunk that arms a read after the last chunk as well
read_body_chunk_alwaysarm(s, callbackAlive, ub, onBody, n) ==
  IF s.parser_state < S_BODY
    THEN [s EXCEPT !.raised = "IllegalStateError", !.illegalState = @ + 1]
    ELSE LET last_chunk == (s.parser_state = S_DONE)
         IN  IF ~callbackAlive /\ ub = "fault"
               THEN [s EXCEPT !.raised = "fault"]
               ELSE LET c == bodyCallback(s, last_chunk, onBody, n)
                    IN  awaitRead([c EXCEPT !.body_buf_ = << >>,
                                            !.bodyClears = @ + 1])

\* the lambda of readRequestBody. It captures the parameter `callback` by
\* reference: once readRequestBody has returned (callbackAlive = FALSE)
\* calling it is undefined, and ub picks what the build does: "call" runs
\* the handler's callback, "fault" leaves the lambda with an exception
read_body_chunk(s, callbackAlive, ub, onBody, n) ==
  IF s.parser_state < S_BODY
    THEN [s EXCEPT !.raised = "IllegalStateError", !.illegalState = @ + 1]
    ELSE LET last_chunk == (s.parser_state = S_DONE)
         IN  IF ~callbackAlive /\ ub = "fault"
               THEN [s EXCEPT !.raised = "fault"]
               ELSE LET c == bodyCallback(s, last_chunk, onBody, n)
                    IN  IF last_chunk
                          THEN c
                          ELSE awaitRead([c EXCEPT !.body_buf_ = << >>,
                                                   !.bodyClears = @ + 1])

readRequestBody(s, onBody, n) ==
  read_body_chunk([s EXCEPT !.on_read_completed_cb_ = "read_body_chunk"],
                  TRUE, "call", onBody, n)

\* ------------------------------------------------------------- handler
\* handleHTTPRequest(): h.onRequest says what the handler does
dispatchRequest(s, h) ==
  LET t == [s EXCEPT !.handlerCalls = @ + 1]
  IN  CASE h.onRequest = "none" -> t
        [] h.onRequest = "respond" -> writeResponse(t, h.n)
        [] h.onRequest = "readBody" -> readRequestBody(t, h.onBody1, h.n)
        [] h.onRequest = "readBodyAndRespond" ->
             LET r == readRequestBody(t, h.onBody1, h.n)
             IN  IF r.raised # "none" \/ r.responded
                   THEN r ELSE writeResponse(r, h.n)

\* the handler's write-completion callback: onReady says what it does
readyCallback(s, onReady, n) ==
  LET t == [s EXCEPT !.readyCalls = @ + 1]
  IN  CASE onReady = "none" -> t
        [] onReady = "finish" -> finishResponse(t)
        [] onReady = "writeBody" -> writeResponseBody(t)
        [] onReady = "finishThenReadBody" ->
             readRequestBody(finishResponse(t), "none", n)

\* -------------------------------------------------------------- parser
\* parser_.parse(): the parser moves forward to `target`; entering BODY
\* fires the headers-complete event, which is dispatchRequest
parse(s, target, perr, h) ==
  LET d == IF s.parser_state < S_BODY /\ target >= S_BODY
             THEN dispatchRequest([s EXCEPT !.parser_state = S_BODY,
                                            !.keepalive = h.keepalive], h)
             ELSE s
  IN  IF d.raised # "none"
        THEN d
        ELSE [d EXCEPT !.parser_state = target,
                       !.raised = IF perr THEN "ParseError" ELSE "none"]

eof(s) ==
  [s EXCEPT !.eofCalls = @ + 1,
            !.eofAfterClose = IF s.closeCalls > 0 THEN @ + 1 ELSE @]

\* ----------------------------------------------------------- read path
\* conn_->read(buf_.data(), buf_.allocSize()) stores len bytes at the
\* start of buf_ and leaves its size and mark alone
connRead(s, len) ==
  [s EXCEPT !.buf_data = [i \in 1 .. MaxLen |->
                            IF i <= len THEN ReqByte ELSE s.buf_data[i]]]

on_read_completed(s, h) ==
  LET t == [s EXCEPT !.readCompleted = @ + 1]
  IN  IF t.on_read_completed_cb_ = "default"
        THEN default_read_completed(t)
        ELSE read_body_chunk(t, FALSE, h.ub, h.onBody2, h.n)

\* read() that retries after a transport error instead of closing
read_retry(s, in, h) ==
  IF in.result = "error"
    THEN decRef(awaitRead([s EXCEPT !.lastEvent = "read_error"]))
    ELSE IF in.len = 0
      THEN close(eof([s EXCEPT !.lastEvent = "eof"]))
      ELSE LET p == parse(connRead(s, in.len), in.target, in.perr, h)
           IN  IF p.raised # "none"
                 THEN close([p EXCEPT !.raised = "none",
                                      !.lastEvent = "parse_error"])
                 ELSE LET c == IF p.on_read_completed_cb_ = "null"
                                 THEN p
                                 ELSE on_read_completed(p, h)
                      IN  IF c.raised # "none" THEN c ELSE decRef(c)

read(s, in, h) ==
  IF in.result = "error"
    THEN close([s EXCEPT !.lastEvent = "read_error"])
    ELSE IF in.len = 0
      THEN close(eof([s EXCEPT !.lastEvent = "eof"]))
      ELSE LET p == parse(connRead(s, in.len), in.target, in.perr, h)
           IN  IF p.raised # "none"
                 THEN close([p EXCEPT !.raised = "none",
                                      !.lastEvent = "parse_error"])
                 ELSE LET c == IF p.on_read_completed_cb_ = "null"
                                 THEN p
                                 ELSE on_read_completed(p, h)
                      IN  IF c.raised # "none" THEN c ELSE decRef(c)

\* ---------------------------------------------------------- write path
\* write() that treats an exactly flushed buffer as a partial write
write_offbyone(s, in, onReady) ==
  IF in.result = "error"
    THEN close([s EXCEPT !.lastEvent = "write_error"])
    ELSE LET len == in.len
             a == [s EXCEPT
                    !.sent = @ \o [i \in 1 .. len |->
                                     s.buf_data[s.buf_mark + i]],
                    !.writeLens = Append(@, len)]
             b == IF a.buf_mark + len <= a.buf_size
                    THEN awaitWrite([a EXCEPT !.buf_mark = @ + len])
                    ELSE LET c == [a EXCEPT !.buf_size = 0, !.buf_mark = 0]
                         IN  IF c.on_write_completed_cb_ = "null"
                               THEN c
                               ELSE readyCallback(c, onReady, 1)
         IN  IF b.raised # "none" THEN b ELSE decRef(b)

write(s, in, onReady) ==
  IF in.result = "error"
    THEN close([s EXCEPT !.lastEvent = "write_error"])
    ELSE LET len == in.len
             a == [s EXCEPT
                    !.sent = @ \o [i \in 1 .. len |->
                                     s.buf_data[s.buf_mark + i]],
                    !.writeLens = Append(@, len)]
             b == IF a.buf_mark + len < a.buf_size
                    THEN awaitWrite([a EXCEPT !.buf_mark = @ + len])
                    ELSE LET c == [a EXCEPT !.buf_size = 0, !.buf_mark = 0]
                         IN  IF c.on_write_completed_cb_ = "null"
                               THEN c
                               ELSE readyCallback(c, onReady, 1)
         IN  IF b.raised # "none" THEN b ELSE decRef(b)

\* ------------------------------------------------------------- inputs
HandlerPlans ==
  [ onRequest : {"none", "respond", "readBody", "readBodyAndRespond"},
    onBody1 : {"none", "respond"},
    onBody2 : {"none", "respond"},
    ub : {"call", "fault"},
    keepalive : BOOLEAN,
    n : 1 .. MaxLen ]

TransportInputs ==
  [ result : {"error"}, len : {0}, target : {S_METHOD}, perr : {FALSE} ]
  \cup
  [ result : {"ok"}, len : {0}, target : {S_METHOD}, perr : {FALSE} ]
  \cup
  [ result : {"ok"}, len : 1 .. MaxReadLen, target : ParserStates,
    perr : BOOLEAN ]

\* the inputs a read() run can meet in s; a field that the run does not
\* look at is held at its default so that every run is listed once
ReadInputs(s) ==
  { x \in TransportInputs \X HandlerPlans :
      LET in == x[1]
          h == x[2]
          data == in.result = "ok" /\ in.len > 0
          dispatches == data /\ s.parser_state < S_BODY
                             /\ in.target >= S_BODY
          reads1 == dispatches
                    /\ h.onRequest \in {"readBody", "readBodyAndRespond"}
          reads2 == data /\ ~in.perr
                    /\ (reads1 \/
                          s.on_read_completed_cb_ = "read_body_chunk")
          writes1 == (dispatches /\
                       h.onRequest \in {"respond", "readBodyAndRespond"})
                     \/ (reads1 /\ h.onBody1 = "respond")
                     \/ (reads2 /\ h.ub = "call" /\ h.onBody2 = "respond")
      IN  /\ s.closeCalls > 0 => in.result = "error"
          /\ data => in.target >= s.parser_state
          /\ (data /\ s.parser_state = S_DONE) => ~in.perr
          /\ ~dispatches => h.onRequest = "none" /\ ~h.keepalive
          /\ ~reads1 => h.onBody1 = "none"
          /\ ~reads2 => h.onBody2 = "none" /\ h.ub = "call"
          /\ (h.ub = "fault") => h.onBody2 = "none"
          /\ ~writes1 => h.n = 1
          /\ h.keepalive => s.requests < MaxRequests }

WriteInputs(s) ==
  IF s.closeCalls > 0
    THEN { [result |-> "error", len |-> 0] }
    ELSE { [result |-> "error", len |-> 0] }
         \cup
         [ result : {"ok"},
           len : IF s.buf_size - s.buf_mark <= 0
                   THEN {0} ELSE 1 .. (s.buf_size - s.buf_mark) ]

ReadyPlans(s, in) ==
  IF in.result = "ok" /\ s.buf_mark + in.len >= s.buf_size
                      /\ s.on_write_completed_cb_ # "null"
    THEN {"none", "finish", "writeBody"}
         \cup (IF s.keepalive THEN {"finishThenReadBody"} ELSE {})
    ELSE {"none"}

\* ------------------------------------------------------------- actions
Init ==
  /\ refcount_ = 1
  /\ deleted = 0
  /\ closeCalls = 0
  /\ pendingRead = 0
  /\ pendingWrite = 0
  /\ parser_state = S_METHOD
  /\ on_read_completed_cb_ = "null"
  /\ on_write_completed_cb_ = "null"
  /\ buf_data = [i \in 1 .. MaxLen |-> ReqByte]
  /\ buf_size = 0
  /\ buf_mark = 0
  /\ body_buf_ = << >>
  /\ keepalive = FALSE
  /\ responded = FALSE
  /\ raised = "none"
  /\ lastEvent = "none"
  /\ requests = 0
  /\ reads = 0
  /\ writes = 0
  /\ incRefs = 0
  /\ decRefs = 0
  /\ decAtZero = 0
  /\ armsWhileClosed = 0
  /\ eofCalls = 0
  /\ eofAfterClose = 0
  /\ handlerCalls = 0
  /\ readCompleted = 0
  /\ bodyCalls = 0
  /\ lastChunkCalls = 0
  /\ bodyClears = 0
  /\ illegalState = 0
  /\ finishCalls = 0
  /\ writeBodyCalls = 0
  /\ serialized = << >>
  /\ sent = << >>
  /\ writeLens = << >>
  /\ readyCalls = 0

\* HTTPConnection::start, after the constructor
Start ==
  /\ requests = 0
  /\ Become(nextRequest(this))

\* the scheduler runs one registered read callback
Read ==
  /\ pendingRead > 0
  /\ deleted = 0
  /\ reads < MaxReads
  /\ \E x \in ReadInputs(this) :
       LET in == x[1]
           h == x[2]
       IN  Become(read([this EXCEPT !.pendingRead = @ - 1,
                                   !.reads = @ + 1,
                                   !.raised = "none",
                                   !.lastEvent = "ok"], in, h))

\* the scheduler runs one registered write callback
Write ==
  /\ pendingWrite > 0
  /\ deleted = 0
  /\ \E in \in WriteInputs(this) :
       \E onReady \in ReadyPlans(this, in) :
       Become(write([this EXCEPT !.pendingWrite = @ - 1,
                                    !.writes = @ + 1,
                                    !.raised = "none",
                                    !.lastEvent = "ok"], in, onReady))

Next == Start \/ Read \/ Write

Spec == Init /\ [][Next]_vars

\* ---------------------------------------------------------------- claims
RECURSIVE Sum(_)
Sum(q) == IF q = << >> THEN 0 ELSE Head(q) + Sum(Tail(q))

CeilDiv(n, k) == (n + k - 1) \div k

\* every write took all the transport accepts when it accepts k per call
Greedy(q, k, n) ==
  \A i \in 1 .. Len(q) :
    LET before == Sum(SubSeq(q, 1, i - 1))
    IN  q[i] = (IF n - before < k THEN n - before ELSE k)

\* C1: the connection is deallocated at most once, by the decRef that
\* takes refcount_ from 1 to 0, and decRef never runs on a count of 0
C1_FreedOnceAtZero ==
  /\ deleted <= 1
  /\ decAtZero = 0
  /\ (deleted = 1) <=> (refcount_ = 0)
  /\ refcount_ >= 0

C1_Witness ==
  deleted = 1 /\ reads >= 2 /\ writes >= 2 /\ bodyCalls > 0

\* C2: once the connection is deallocated no read or write callback
\* registered by awaitRead/awaitWrite is outstanding
C2_OutlivesCallbacks ==
  deleted > 0 => pendingRead = 0 /\ pendingWrite = 0

C2_Witness ==
  deleted = 1 /\ reads >= 2 /\ writes >= 1 /\ closeCalls >= 2

\* C3: once close() was called and every scheduled callback has run, the
\* connection is deallocated
C3_FreedAfterClose ==
  (closeCalls > 0 /\ pendingRead = 0 /\ pendingWrite = 0) => deleted = 1

\* C4: at most one read callback and at most one write callback are
\* outstanding at any time
C4_OneReadOneWrite ==
  pendingRead <= 1 /\ pendingWrite <= 1

\* C5: the bytes accepted by the transport are, in order and each once,
\* the serialization writeResponse() put into the buffer
C5_SentIsSerialization ==
  /\ Len(sent) <= Len(serialized)
  /\ sent = SubSeq(serialized, 1, Len(sent))
  /\ readyCalls > 0 => sent = serialized

\* C6: after writeResponse() a write stays armed until the buffer is
\* flushed, the ready callback runs once and only after all bytes were
\* accepted, the mark stays within the size, and a transport taking k
\* bytes per call sees ceil(n/k) writes before the callback
C6_WriteLoop ==
  /\ buf_mark <= buf_size
  /\ readyCalls <= 1
  /\ readyCalls = 1 => Sum(writeLens) = Len(serialized) /\ buf_size = 0
  /\ (on_write_completed_cb_ = "ready" /\ readyCalls = 0 /\ closeCalls = 0)
       => (pendingWrite = 1 /\ buf_mark = Sum(writeLens)
           /\ buf_size = Len(serialized) /\ buf_mark < buf_size)
  /\ readyCalls = 1 =>
       \A k \in 1 .. MaxLen :
         Greedy(writeLens, k, Len(serialized))
           => Len(writeLens) = CeilDiv(Len(serialized), k)

C6_Witness ==
  readyCalls = 1 /\ writeLens = << 2, 1 >>

\* C7: finishResponse() with keep-alive arms a read for the next request
\* and leaves the transport open; without keep-alive it closes the
\* transport and arms no read
C7_FinishResponse ==
  [][ finishCalls' = finishCalls + 1 =>
        IF keepalive
          THEN /\ closeCalls' = closeCalls
               /\ requests' = requests + 1
               /\ pendingRead' = pendingRead + 1
               /\ parser_state' = S_METHOD
          ELSE /\ closeCalls' = closeCalls + 1
               /\ requests' = requests
               /\ pendingRead' = pendingRead ]_vars

C7_Witness ==
  finishCalls = 2 /\ requests = 2 /\ closeCalls = 1

\* C8: a transport error, a parse error and a zero-byte read close the
\* transport, call no completion callback and arm nothing afterwards; on
\* a zero-byte read the parser gets eof() before the close
C8_ErrorsAreTerminal ==
  /\ [](armsWhileClosed = 0 /\ eofAfterClose = 0)
  /\ [][ (reads' = reads + 1 /\
          lastEvent' \in {"read_error", "eof", "parse_error"})
         => /\ closeCalls' = closeCalls + 1
            /\ readCompleted' = readCompleted
            /\ lastEvent' = "eof" => eofCalls' = eofCalls + 1
            /\ lastEvent' # "eof" => eofCalls' = eofCalls
            /\ lastEvent' # "parse_error" =>
                 /\ pendingRead' = pendingRead - 1
                 /\ pendingWrite' = pendingWrite ]_vars
  /\ [][ (writes' = writes + 1 /\ lastEvent' = "write_error")
         => /\ closeCalls' = closeCalls + 1
            /\ readyCalls' = readyCalls
            /\ pendingWrite' = pendingWrite - 1
            /\ pendingRead' = pendingRead ]_vars

C8_Witness ==
  eofCalls = 1 /\ closeCalls = 1 /\ lastEvent = "eof"

\* C9: readRequestBody() before BODY raises IllegalStateError without
\* calling the body callback, clearing the body buffer or arming a read
\* (a read armed in that step is nextRequest's, a read taken off the
\* scheduler is the read() that ran)
C9_BodyBeforeHeaders ==
  [][ illegalState' = illegalState + 1 =>
        /\ raised' = "IllegalStateError"
        /\ parser_state' < S_BODY
        /\ bodyCalls' = 0
        /\ bodyClears' = bodyClears
        /\ body_buf_' = body_buf_
        /\ pendingRead' = pendingRead + (requests' - requests)
                                     - (reads' - reads) ]_vars

C9_Witness ==
  illegalState = 1 /\ raised = "IllegalStateError"

\* C10 as stated: over the connection's lifetime incRef and decRef are
\* called equally often
C10_Original ==
  deleted = 1 => incRefs = decRefs

\* C10 amended: the connection is deallocated exactly when decRef has been
\* called once more than incRef (the constructor's reference is not an
\* incRef call)
C10_Balanced ==
  /\ (deleted = 1) <=> (decRefs = incRefs + 1)
  /\ decRefs <= incRefs + 1
  /\ refcount_ = 1 + incRefs - decRefs

C10_Witness ==
  deleted = 1 /\ finishCalls = 1 /\ incRefs >= 3

\* C11: while the default callback is installed, a read that leaves the
\* parser before BODY re-arms exactly one read, a read that leaves it at
\* BODY or later re-arms none, and the handler is invoked once per
\* request, in the read that completes the headers
C11_HeaderPhase ==
  /\ [](handlerCalls <= 1)
  /\ [][ (reads' = reads + 1 /\ lastEvent' = "ok")
         => /\ (handlerCalls' = handlerCalls + 1)
                 <=> (parser_state < S_BODY /\ parser_state' >= S_BODY)
            /\ handlerCalls' >= handlerCalls
            /\ (on_read_completed_cb_' = "default" /\ parser_state' < S_BODY)
                 => (pendingRead' = pendingRead /\ handlerCalls' = 0)
            /\ (on_read_completed_cb_' = "default" /\ parser_state' >= S_BODY)
                 => pendingRead' = pendingRead - 1 ]_vars

C11_Witness ==
  /\ handlerCalls = 1 /\ reads = 3 /\ requests = 1
  /\ on_read_completed_cb_ = "default" /\ pendingRead = 0 /\ closeCalls = 0

\* C12: while read_body_chunk is the installed callback, every non-final
\* delivery clears the body buffer and arms one read, nothing else arms a
\* read, and once the final chunk was delivered no read is armed for that
\* request
C12_BodyStreaming ==
  [][ (requests' = requests /\ on_read_completed_cb_' = "read_body_chunk")
      => LET armsRead == (pendingRead' - pendingRead) + (reads' - reads)
             nonFinal == (bodyCalls' - lastChunkCalls')
                         - (bodyCalls - lastChunkCalls)
         IN  /\ nonFinal >= 0
             /\ bodyClears' - bodyClears = nonFinal
             /\ armsRead = nonFinal
             /\ body_buf_' = << >>
             /\ lastChunkCalls > 0 => armsRead = 0 ]_vars

C12_Witness ==
  /\ on_read_completed_cb_ = "read_body_chunk"
  /\ bodyCalls = 3 /\ lastChunkCalls = 1 /\ bodyClears = 2 /\ reads = 2

\* C13: writeResponseBody() puts the chunk into the buffer and arms a
\* write, as writeResponse() does, so that the chunk is sent and the ready
\* callback can follow
C13_BodyChunkIsWritten ==
  [][ writeBodyCalls' = writeBodyCalls + 1
      => (pendingWrite' >= 1 /\ buf_size' > 0
          /\ on_write_completed_cb_' = "ready") ]_vars

\* C14: every run of write() calls decRef once for the reference its
\* awaitWrite took, besides the decRef inside every close() it makes
C14_WriteReleasesItsRef ==
  [][ writes' = writes + 1
      => decRefs' - decRefs = 1 + (closeCalls' - closeCalls) ]_vars

\* C15: start() and every nextRequest() leave the parser at METHOD, a
\* fresh request, no write-completion callback, the default
\* read-completion callback, one more read armed and the transport open;
\* after start() the reference count is 2. (A step in which the handler
\* goes on to call readRequestBody() after nextRequest() returned is not
\* the state nextRequest() left.)
C15_InitialRequestState ==
  [][ (requests' = requests + 1 /\ illegalState' = illegalState)
      => /\ parser_state' = S_METHOD
         /\ keepalive' = FALSE /\ responded' = FALSE
         /\ handlerCalls' = 0 /\ bodyCalls' = 0 /\ lastChunkCalls' = 0
         /\ on_write_completed_cb_' = "null"
         /\ on_read_completed_cb_' = "default"
         /\ (pendingRead' - pendingRead) + (reads' - reads) = 1
         /\ closeCalls' = 0
         /\ requests = 0 => (refcount_' = 2 /\ pendingRead' = 1) ]_vars

C15_Witness ==
  /\ requests = 2 /\ finishCalls = 1 /\ parser_state = S_METHOD
  /\ on_read_completed_cb_ = "default" /\ on_write_completed_cb_ = "null"
  /\ reads = 1 /\ writes >= 1 /\ closeCalls = 0

\* the connection waits for the (next) request: nothing of it parsed,
\* nothing being written, the last callback returned normally
Idle ==
  /\ requests >= 1
  /\ parser_state = S_METHOD
  /\ on_read_completed_cb_ = "default"
  /\ pendingWrite = 0
  /\ closeCalls = 0
  /\ raised = "none"

\* C16: whenever the connection is idle awaiting a request the reference
\* count is 2 and one read is outstanding, in every request cycle
C16_IdleRefcount ==
  Idle => (refcount_ = 2 /\ pendingRead = 1)

\* C17: the body callback is invoked with last_chunk = true at most once
\* per request
C17_LastChunkOnce ==
  lastChunkCalls <= 1

\* C18: while a response is being written, the unflushed bytes
\* [mark, size) of the buffer are those writeResponse() put there
C18_PendingResponseIntact ==
  (on_write_completed_cb_ = "ready" /\ readyCalls = 0 /\ pendingWrite > 0)
    => \A i \in (buf_mark + 1) .. buf_size :
         i <= Len(serialized) /\ buf_data[i] = serialized[i]

\* C19: once conn_->close() was called no read() or write() runs on the
\* transport and close() is not called again
C19_NothingAfterClose ==
  [][ closeCalls > 0
      => (reads' = reads /\ writes' = writes
          /\ closeCalls' = closeCalls) ]_vars

\* C20: a readRequestBody() call that raises IllegalStateError leaves the
\* read-completion callback as it was (the default one that nextRequest()
\* installed), and the call itself takes no reference, arms no read and
\* does not touch the body buffer
C20_FailedCallChangesNothing ==
  [][ (illegalState' = illegalState + 1 /\ writes' = writes + 1)
      => /\ on_read_completed_cb_' = "default"
         /\ pendingRead' = pendingRead + (requests' - requests)
         /\ bodyClears' = bodyClears
         /\ body_buf_' = body_buf_ ]_vars

====
